---- MODULE Spec2Model ----
(***************************************************************************)
(* Model of enwiki/cfdw.py: the checker of a CFD working page              *)
(* (CFDWPage._check_run, check_instruction, do_instruction and the store   *)
(* operations it issues), the page rewrite of CfdBot (treat_templates,     *)
(* treat_wikilinks, treat_page), the parser of a working page (parse,      *)
(* _parse_section, _parse_line, the retain derivation) and the page loop   *)
(* of main.                                                                *)
(*                                                                         *)
(* Categories are numbered; the number order is the title order that       *)
(* sorted() uses.  The content store is external: a category page is of    *)
(* one kind (missing, plain, category redirect, hard redirect,             *)
(* disambiguation), store operations may raise pywikibot.exceptions.Error, *)
(* and the membership index answers isEmptyCategory().                     *)
(***************************************************************************)
EXTENDS Integers, Sequences, FiniteSets, TLC

\* ---------------------------------------------------------------- bounds
NumCats == 2
MaxInstr == 2
MaxNewCats == 2
MaxWeight == 2
MaxPages == 1
MaxRedirects == 1

Categories == 1..NumCats

MODES == <<"move", "merge", "empty", "retain">>

Range(s) == {s[i] : i \in 1..Len(s)}

VARIABLES
    parsed,             \* self.instructions as parse() hands it to _check_run
    self_instructions,  \* self.instructions after the reset of line 444
    instructions,       \* local list of _check_run (duplicates removed)
    seen,               \* local set of _check_run
    skip,               \* local set of _check_run
    di,                 \* position of the decision loop in instructions
    pc,                 \* position of the program
    kind,               \* content store: kind of each category page
    todo,               \* fan-out pages the generator has yet to yield
    stay,               \* fan-out pages treated that still reference old_cat
    redirs,             \* redirects of the deleted page yet to delete
    ops,                \* store operations issued by the running do_instruction
    page_text,          \* CfdBot: text of current_page in the store
    namespace,          \* CfdBot: namespace of current_page
    opt,                \* CfdBot: self.opt (old_cat, new_cats)
    original,           \* text of the page before the bot first treated it
    outcomes,           \* what each treat_page did: "save" or "purge"
    mode,               \* CFDWPage.mode
    page_instructions,  \* CFDWPage.instructions while parse() fills it
    cfd_page,           \* _parse_section: cfd_page
    cfd_prefix,         \* _parse_section: cfd_prefix
    cfd_suffix,         \* _parse_section: cfd_suffix
    line,               \* the line _parse_section read last
    line_results,       \* what _parse_line returned for it
    ppc,                \* position of parse()
    nsections,          \* sections parse() has taken from the page
    nlines,             \* lines _parse_section has taken from the page
    logged,             \* exceptions parse() caught and logged
    suffix,             \* retain: the suffix text of an entry
    recorded,           \* retain: what get_result_action answers
    derived,            \* retain: the result and action of the instruction
    gen,                \* main: the pages the generator yields
    gi,                 \* main: position in the generator
    mpc,                \* main: position of the program
    handled,            \* main: what was done with each page so far
    cfd_self,           \* find_discussion: the reference it is called on
    cfd_sections,       \* find_discussion: the level-4 sections of the page
    discussion,         \* find_discussion: the reference it returns
    fpc,                \* find_discussion: position of the program
    nnodes,             \* parse: nodes of the lines taken from the page
    ref_line,           \* history: the line the section has its reference from
    origin,             \* history: the section each instruction came from
    failed              \* history: sections left by a caught exception

cvars == <<parsed, self_instructions, instructions, seen, skip, di, pc, kind,
           todo, stay, redirs, ops>>

rvars == <<page_text, namespace, opt, original, outcomes>>

pvars == <<mode, page_instructions, cfd_page, cfd_prefix, cfd_suffix, line,
           line_results, ppc, nsections, nlines, logged>>

svars == <<suffix, recorded, derived>>

mvars == <<gen, gi, mpc, handled>>

dvars == <<cfd_self, cfd_sections, discussion, fpc>>

hvars == <<nnodes, ref_line, origin, failed>>

vars == <<cvars, rvars, pvars, svars, mvars, dvars, hvars>>

\* ------------------------------------------------------------ instructions
\* Instruction (TypedDict, total=False); a key the parser does not set for a
\* mode is held at FALSE / the empty text.
Instr(m, o, n, f) ==
    [mode |-> m,
     old_cat |-> o,
     new_cats |-> n,
     cfd_page |-> "CFD",
     redirect |-> (m = "merge" /\ f),
     noredirect |-> (m = "move" /\ f),
     result |-> IF m = "merge" THEN <<"merge">>
                ELSE IF m = "retain" /\ f THEN <<"keep">> ELSE <<>>,
     action |-> IF m = "merge" THEN <<"merging">>
                ELSE IF m = "retain" /\ f THEN <<"delete">> ELSE <<>>]

NewCatSeqs == UNION {[1..k -> Categories] : k \in 0..MaxNewCats}

InstructionSet ==
    {Instr(m, o, n, f) : m \in Range(MODES), o \in Categories,
                         n \in NewCatSeqs, f \in BOOLEAN}

Weight(ins) == Len(ins.new_cats)

RECURSIVE SumWeight(_)
SumWeight(s) == IF s = <<>> THEN 0 ELSE Weight(s[1]) + SumWeight(Tail(s))

ParsedLists ==
    {s \in UNION {[1..k -> InstructionSet] : k \in 0..MaxInstr} :
        SumWeight(s) <= MaxWeight}

\* ------------------------------------------------------------------ store
Kinds == {"missing", "plain", "catredirect", "redirect", "disambig"}

exists(c) == kind[c] # "missing"
isCategoryRedirect(c) == kind[c] = "catredirect"
isRedirectPage(c) == kind[c] = "redirect"
isDisambig(c) == kind[c] = "disambig"


\* ------------------------------------------------------- check_instruction
\* A validation that compares old_cat with the first target only.
OldCatIsFirstTarget(instruction) ==
    /\ instruction.new_cats # <<>>
    /\ instruction.old_cat = instruction.new_cats[1]

\* line 520: old_cat in new_cats
OldCatIsTarget(instruction) ==
    instruction.old_cat \in Range(instruction.new_cats)

check_empty(instruction) == instruction.new_cats = <<>>

check_merge(instruction) ==
    /\ instruction.new_cats # <<>>
    /\ instruction.action # <<>> /\ instruction.result # <<>>
    /\ \A new_cat \in Range(instruction.new_cats) :
          /\ exists(new_cat)
          /\ ~(isCategoryRedirect(new_cat) \/ isRedirectPage(new_cat))

\* A move validation that only asks for some target.
check_move_some_target(instruction) ==
    LET old_cat == instruction.old_cat
        new_cats == instruction.new_cats
    IN  /\ Len(new_cats) >= 1
        /\ ~(/\ exists(new_cats[1])
             /\ exists(old_cat)
             /\ ~isCategoryRedirect(old_cat))
        /\ ~(/\ (isCategoryRedirect(old_cat) \/ isRedirectPage(old_cat))
             /\ ~exists(new_cats[1]))
        /\ ~(isCategoryRedirect(new_cats[1]) \/ isRedirectPage(new_cats[1]))

check_move(instruction) ==
    LET old_cat == instruction.old_cat
        new_cats == instruction.new_cats
    IN  /\ Len(new_cats) = 1
        /\ ~(/\ exists(new_cats[1])
             /\ exists(old_cat)
             /\ ~isCategoryRedirect(old_cat))
        /\ ~(/\ (isCategoryRedirect(old_cat) \/ isRedirectPage(old_cat))
             /\ ~exists(new_cats[1]))
        /\ ~(isCategoryRedirect(new_cats[1]) \/ isRedirectPage(new_cats[1]))

\* A retain validation that does not look at result and action.
check_retain_any_text(instruction) ==
    /\ exists(instruction.old_cat)
    /\ instruction.new_cats = <<>>

check_retain(instruction) ==
    /\ exists(instruction.old_cat)
    /\ instruction.new_cats = <<>>
    /\ instruction.action # <<>> /\ instruction.result # <<>>

check_instruction(instruction) ==
    IF OldCatIsTarget(instruction) THEN FALSE
    ELSE IF instruction.mode = "empty" THEN check_empty(instruction)
    ELSE IF instruction.mode = "merge" THEN check_merge(instruction)
    ELSE IF instruction.mode = "move" THEN check_move(instruction)
    ELSE IF instruction.mode = "retain" THEN check_retain(instruction)
    ELSE FALSE

\* ------------------------------------------------ _check_run: collection
\* A collection that puts each kept instruction in front of the list.
CollectStepPrepend(acc, instruction) ==
    IF instruction \in Range(acc.instructions) THEN acc
    ELSE [instructions |-> <<instruction>> \o acc.instructions,
          skip |-> IF instruction.old_cat \in acc.seen
                   THEN acc.skip \cup {instruction.old_cat}
                   ELSE acc.skip,
          seen |-> acc.seen \cup {instruction.old_cat}
                            \cup Range(instruction.new_cats)]

\* A collection that records the new categories only.
CollectStepNewCatsOnly(acc, instruction) ==
    IF instruction \in Range(acc.instructions) THEN acc
    ELSE [instructions |-> Append(acc.instructions, instruction),
          skip |-> IF instruction.old_cat \in acc.seen
                   THEN acc.skip \cup {instruction.old_cat}
                   ELSE acc.skip,
          seen |-> acc.seen \cup Range(instruction.new_cats)]

\* A collection that records the old categories only.
CollectStepOldCatsOnly(acc, instruction) ==
    IF instruction \in Range(acc.instructions) THEN acc
    ELSE [instructions |-> Append(acc.instructions, instruction),
          skip |-> IF instruction.old_cat \in acc.seen
                   THEN acc.skip \cup {instruction.old_cat}
                   ELSE acc.skip,
          seen |-> acc.seen \cup {instruction.old_cat}]

\* A collection that keeps every instruction, repeated or not.
CollectStepNoDedup(acc, instruction) ==
    [instructions |-> Append(acc.instructions, instruction),
     skip |-> IF instruction.old_cat \in acc.seen
              THEN acc.skip \cup {instruction.old_cat}
              ELSE acc.skip,
     seen |-> acc.seen \cup {instruction.old_cat}
                       \cup Range(instruction.new_cats)]

\* One turn of the first loop: drop an exact duplicate, else keep the
\* instruction, mark its old_cat when already seen, and record its categories.
CollectStep(acc, instruction) ==
    IF instruction \in Range(acc.instructions) THEN acc
    ELSE [instructions |-> Append(acc.instructions, instruction),
          skip |-> IF instruction.old_cat \in acc.seen
                   THEN acc.skip \cup {instruction.old_cat}
                   ELSE acc.skip,
          seen |-> acc.seen \cup {instruction.old_cat}
                            \cup Range(instruction.new_cats)]

RECURSIVE CollectLoop(_, _)
CollectLoop(list, acc) ==
    IF list = <<>> THEN acc
    ELSE CollectLoop(Tail(list), CollectStep(acc, list[1]))

Collect(list) ==
    CollectLoop(list, [instructions |-> <<>>, seen |-> {}, skip |-> {}])

\* -------------------------------------------------- _check_run: decision
Cats(instruction) == {instruction.old_cat} \cup Range(instruction.new_cats)

\* A decision that looks the categories up in seen.
ContestedBySeen(instruction) == Cats(instruction) \cap seen # {}

\* lines 447-449: cats & skip
Contested(instruction) == Cats(instruction) \cap skip # {}

InvolvesDisambig(instruction) == \E c \in Cats(instruction) : isDisambig(c)

Op(o, c, r) == [op |-> o, cat |-> c, res |-> r]

cur == instructions[di]

\* A merge that follows the flag whatever the number of new categories.
MergeRedirectFlagOnly(instruction) == instruction.redirect

\* redirect of do_instruction's merge branch: the flag counts only with one
\* new category.
MergeRedirect(instruction) ==
    IF Len(instruction.new_cats) = 1 THEN instruction.redirect ELSE FALSE

Idle == todo = 0 /\ stay = 0 /\ redirs = 0 /\ ops = <<>>

\* No page is under treatment by a CfdBot.
NoPage ==
    /\ page_text = <<>>
    /\ namespace = 0
    /\ opt = [old_cat |-> 1, new_cats |-> <<>>]
    /\ original = <<>>
    /\ outcomes = <<>>

\* parse() is not running.
NoParse ==
    /\ mode = "none"
    /\ page_instructions = <<>>
    /\ cfd_page = 0
    /\ cfd_prefix = <<>>
    /\ cfd_suffix = <<>>
    /\ line = <<>>
    /\ line_results = [cfd_page |-> 0, old_cat |-> 0, new_cats |-> <<>>,
                       prefix |-> <<>>, suffix |-> <<>>, raised |-> ""]
    /\ ppc = "off"
    /\ nsections = 0
    /\ nlines = 0
    /\ logged = <<>>

\* No retain entry is under derivation.
NoRetain ==
    /\ suffix = <<>>
    /\ recorded = <<"", "">>
    /\ derived = <<"", "">>

\* main() is not running.
NoMain ==
    /\ gen = <<>>
    /\ gi = 1
    /\ mpc = "off"
    /\ handled = <<>>

\* No page is being parsed: nothing is recorded.
NoHistory ==
    /\ nnodes = 0
    /\ ref_line = <<>>
    /\ origin = <<>>
    /\ failed = {}

\* find_discussion is not running.
NoSearch ==
    /\ cfd_self = [page |-> 0, section |-> 0]
    /\ cfd_sections = <<>>
    /\ discussion = [page |-> 0, section |-> 0]
    /\ fpc = "off"

Init ==
    /\ parsed \in ParsedLists
    /\ self_instructions = parsed
    /\ instructions = <<>>
    /\ seen = {}
    /\ skip = {}
    /\ di = 0
    /\ pc = "collect"
    /\ kind \in [Categories -> Kinds]
    /\ Idle
    /\ NoPage
    /\ NoParse
    /\ NoRetain
    /\ NoMain
    /\ NoSearch
    /\ NoHistory

CollectPass ==
    /\ pc = "collect"
    /\ LET acc == Collect(parsed)
       IN  /\ instructions' = acc.instructions
           /\ seen' = acc.seen
           /\ skip' = acc.skip
    /\ self_instructions' = <<>>
    /\ di' = 1
    /\ pc' = "decide"
    /\ UNCHANGED <<parsed, kind, todo, stay, redirs, ops>>
    /\ UNCHANGED <<rvars, pvars, svars, mvars, dvars, hvars>>

Deciding == pc = "decide" /\ di <= Len(instructions)

NextInstruction ==
    /\ di' = di + 1
    /\ pc' = "decide"
    /\ UNCHANGED <<parsed, self_instructions, instructions, seen, skip, kind,
                   todo, stay, redirs, ops>>
    /\ UNCHANGED <<rvars, pvars, svars, mvars, dvars, hvars>>

SkipContested ==
    /\ Deciding
    /\ Contested(cur)
    /\ NextInstruction

SkipDisambig ==
    /\ Deciding
    /\ ~Contested(cur)
    /\ InvolvesDisambig(cur)
    /\ NextInstruction

SkipInvalid ==
    /\ Deciding
    /\ ~Contested(cur)
    /\ ~InvolvesDisambig(cur)
    /\ ~check_instruction(cur)
    /\ NextInstruction

\* A retain that goes through the fan-out like the other modes.
FirstStepRetainRuns(instruction) ==
    IF instruction.mode = "move" THEN "move" ELSE "run"

FirstStep(instruction) ==
    IF instruction.mode = "move" THEN "move"
    ELSE IF instruction.mode = "retain" THEN "remove_cfd_tpl"
    ELSE "run"

\* The instruction passes: it is kept and do_instruction starts.
Execute ==
    /\ Deciding
    /\ ~Contested(cur)
    /\ ~InvolvesDisambig(cur)
    /\ check_instruction(cur)
    /\ self_instructions' = Append(self_instructions, cur)
    /\ todo' \in IF cur.mode = "retain" THEN {0} ELSE 0..MaxPages
    /\ pc' = FirstStep(cur)
    /\ UNCHANGED <<parsed, instructions, seen, skip, di, kind, stay, redirs, ops>>
    /\ UNCHANGED <<rvars, pvars, svars, mvars, dvars, hvars>>

Finish ==
    /\ pc = "decide"
    /\ di > Len(instructions)
    /\ pc' = "done"
    /\ UNCHANGED <<parsed, self_instructions, instructions, seen, skip, di,
                   kind, todo, stay, redirs, ops>>
    /\ UNCHANGED <<rvars, pvars, svars, mvars, dvars, hvars>>

\* ---------------------------------------------------------- do_instruction
\* Every step below belongs to do_instruction(cur); the checker's own
\* variables do not change while it runs.
Running ==
    /\ UNCHANGED <<parsed, self_instructions, instructions, seen, skip, di>>
    /\ UNCHANGED <<rvars, pvars, svars, mvars, dvars, hvars>>

Log(o, c, r) == ops' = Append(ops, Op(o, c, r))

\* move: old_cat.move(...) inside suppress(Error).  The store accepts a move
\* of an existing page onto a free title.
MoveOk ==
    /\ pc = "move"
    /\ exists(cur.old_cat)
    /\ ~exists(cur.new_cats[1])
    /\ kind' = [kind EXCEPT ![cur.new_cats[1]] = kind[cur.old_cat],
                            ![cur.old_cat] = IF cur.noredirect THEN "missing"
                                             ELSE "redirect"]
    /\ Log("move", cur.old_cat, "ok")
    /\ pc' = "strip_new"
    /\ Running /\ UNCHANGED <<todo, stay, redirs>>

\* A failed move that leaves do_instruction.
MoveErrorAborts ==
    /\ pc = "move"
    /\ Log("move", cur.old_cat, "error")
    /\ pc' = "aborted"
    /\ Running /\ UNCHANGED <<kind, todo, stay, redirs>>

\* The move raises Error: suppressed, remove_cfd_tpl is passed over.
MoveError ==
    /\ pc = "move"
    /\ Log("move", cur.old_cat, "error")
    /\ pc' = "run"
    /\ Running /\ UNCHANGED <<kind, todo, stay, redirs>>

\* remove_cfd_tpl reads the page with page.get(force=True), which raises for
\* a missing page and for a hard redirect.
Readable(c) == exists(c) /\ ~isRedirectPage(c)

\* move: remove_cfd_tpl(new_cats[0]) inside the same suppress(Error).
StripNew ==
    /\ pc = "strip_new"
    /\ \E r \in IF Readable(cur.new_cats[1]) THEN {"ok", "error"} ELSE {"error"} :
          Log("remove_cfd_tpl", cur.new_cats[1], r)
    /\ pc' = "run"
    /\ Running /\ UNCHANGED <<kind, todo, stay, redirs>>

\* CfdBot(**bot_options).run(): one fan-out page is treated; it is saved
\* without the old reference or left unchanged and purged.
TreatFanout ==
    /\ pc = "run"
    /\ todo > 0
    /\ todo' = todo - 1
    /\ \E r \in {"saved", "purged"} :
          /\ Log("treat_page", cur.old_cat, r)
          /\ stay' = IF r = "purged" THEN stay + 1 ELSE stay
    /\ pc' = "run"
    /\ Running /\ UNCHANGED <<kind, redirs>>

RunFinished == todo = 0

\* A run that is followed by the emptiness test at once.
AfterRunNoSleep(instruction) ==
    IF instruction.mode = "move"
    THEN IF instruction.noredirect THEN "ret" ELSE "sleep"
    ELSE "check"

AfterRun(instruction) ==
    IF instruction.mode = "move" /\ instruction.noredirect THEN "ret"
    ELSE "sleep"

RunDone ==
    /\ pc = "run"
    /\ RunFinished
    /\ pc' = AfterRun(cur)
    /\ Running /\ UNCHANGED <<kind, todo, stay, redirs, ops>>

\* pywikibot.sleep(pywikibot.config.put_throttle)
Sleep ==
    /\ pc = "sleep"
    /\ Log("sleep", cur.old_cat, "ok")
    /\ pc' = IF cur.mode = "move" THEN "redirect_cat" ELSE "check"
    /\ Running /\ UNCHANGED <<kind, todo, stay, redirs>>

\* What the membership index may answer for old_cat: a page that still
\* references it keeps it non-empty; otherwise the index may still lag.
EmptyAnswers == IF stay > 0 THEN {FALSE} ELSE BOOLEAN

\* A test that passes over the answer of the membership index.
AfterCheckIgnoreEmpty(instruction, empty) ==
    IF instruction.mode = "empty" THEN
        IF exists(instruction.old_cat) THEN "delete" ELSE "ret"
    ELSE
        IF /\ exists(instruction.old_cat)
           /\ ~isCategoryRedirect(instruction.old_cat)
        THEN IF MergeRedirect(instruction) THEN "redirect_cat" ELSE "delete"
        ELSE "ret"

AfterCheck(instruction, empty) ==
    IF instruction.mode = "empty" THEN
        IF exists(instruction.old_cat) /\ empty THEN "delete" ELSE "ret"
    ELSE
        IF /\ exists(instruction.old_cat)
           /\ empty
           /\ ~isCategoryRedirect(instruction.old_cat)
        THEN IF MergeRedirect(instruction) THEN "redirect_cat" ELSE "delete"
        ELSE "ret"

\* empty, merge: the test after the sleep.  isEmptyCategory() is asked only
\* when old_cat exists.
CheckEmpty ==
    /\ pc = "check"
    /\ IF exists(cur.old_cat)
       THEN \E empty \in EmptyAnswers :
               /\ Log("isEmptyCategory", cur.old_cat, IF empty THEN "yes" ELSE "no")
               /\ pc' = AfterCheck(cur, empty)
       ELSE /\ pc' = AfterCheck(cur, FALSE)
            /\ UNCHANGED ops
    /\ Running /\ UNCHANGED <<kind, todo, stay, redirs>>

\* delete_page: page.delete(...) removed the page; its redirects are listed.
DeleteOk ==
    /\ pc = "delete"
    /\ kind' = [kind EXCEPT ![cur.old_cat] = "missing"]
    /\ Log("delete", cur.old_cat, "ok")
    /\ redirs' \in 0..MaxRedirects
    /\ pc' = "del_redirects"
    /\ Running /\ UNCHANGED <<todo, stay>>

\* delete_page: page.delete(...) returned and the page still exists: return.
DeleteKept ==
    /\ pc = "delete"
    /\ Log("delete", cur.old_cat, "kept")
    /\ pc' = "ret"
    /\ Running /\ UNCHANGED <<kind, todo, stay, redirs>>

\* An operation that nothing guards raises: the exception leaves
\* do_instruction, _check_run, parse and main.
Raise(o, c) ==
    /\ Log(o, c, "error")
    /\ pc' = "aborted"
    /\ Running /\ UNCHANGED <<kind, todo, stay, redirs>>

DeleteError ==
    /\ pc = "delete"
    /\ Raise("delete", cur.old_cat)

DeleteRedirectOk ==
    /\ pc = "del_redirects"
    /\ redirs > 0
    /\ redirs' = redirs - 1
    /\ Log("delete_redirect", cur.old_cat, "ok")
    /\ pc' = "del_redirects"
    /\ Running /\ UNCHANGED <<kind, todo, stay>>

DeleteRedirectError ==
    /\ pc = "del_redirects"
    /\ redirs > 0
    /\ Raise("delete_redirect", cur.old_cat)

DeleteDone ==
    /\ pc = "del_redirects"
    /\ redirs = 0
    /\ pc' = "ret"
    /\ Running /\ UNCHANGED <<kind, todo, stay, redirs, ops>>

\* redirect_cat(old_cat, new_cats[0], ...): cat.save(...)
RedirectCatOk ==
    /\ pc = "redirect_cat"
    /\ kind' = [kind EXCEPT ![cur.old_cat] = "catredirect"]
    /\ Log("redirect_cat", cur.old_cat, "ok")
    /\ pc' = IF cur.mode = "merge" THEN "add_old_cfd" ELSE "ret"
    /\ Running /\ UNCHANGED <<todo, stay, redirs>>

RedirectCatError ==
    /\ pc = "redirect_cat"
    /\ Raise("redirect_cat", cur.old_cat)

\* retain: remove_cfd_tpl(old_cat, summary), outside any suppress.
RemoveCfdTplOk ==
    /\ pc = "remove_cfd_tpl"
    /\ Readable(cur.old_cat)
    /\ Log("remove_cfd_tpl", cur.old_cat, "ok")
    /\ pc' = "add_old_cfd"
    /\ Running /\ UNCHANGED <<kind, todo, stay, redirs>>

RemoveCfdTplError ==
    /\ pc = "remove_cfd_tpl"
    /\ Raise("remove_cfd_tpl", cur.old_cat)

\* add_old_cfd(old_cat.toggleTalkPage(), ...): the template is already on
\* the talk page (return without a save) or it is added and the page saved.
AddOldCfdOk ==
    /\ pc = "add_old_cfd"
    /\ \E r \in {"present", "ok"} : Log("add_old_cfd", cur.old_cat, r)
    /\ pc' = "ret"
    /\ Running /\ UNCHANGED <<kind, todo, stay, redirs>>

AddOldCfdError ==
    /\ pc = "add_old_cfd"
    /\ Raise("add_old_cfd", cur.old_cat)

\* do_instruction returns to the loop of _check_run.
Return ==
    /\ pc = "ret"
    /\ di' = di + 1
    /\ pc' = "decide"
    /\ todo' = 0 /\ stay' = 0 /\ redirs' = 0 /\ ops' = <<>>
    /\ UNCHANGED <<parsed, self_instructions, instructions, seen, skip, kind>>
    /\ UNCHANGED <<rvars, pvars, svars, mvars, dvars, hvars>>

Next ==
    \/ CollectPass
    \/ SkipContested
    \/ SkipDisambig
    \/ SkipInvalid
    \/ Execute
    \/ Finish
    \/ MoveOk
    \/ MoveError
    \/ StripNew
    \/ TreatFanout
    \/ RunDone
    \/ Sleep
    \/ CheckEmpty
    \/ DeleteOk
    \/ DeleteKept
    \/ DeleteError
    \/ DeleteRedirectOk
    \/ DeleteRedirectError
    \/ DeleteDone
    \/ RedirectCatOk
    \/ RedirectCatError
    \/ RemoveCfdTplOk
    \/ RemoveCfdTplError
    \/ AddOldCfdOk
    \/ AddOldCfdError
    \/ Return

Spec == Init /\ [][Next]_vars

\* ------------------------------------------------- claims on the checker
\* The instructions do_instruction has been called for, in call order.
executed == IF pc = "collect" THEN <<>> ELSE self_instructions

SameOldCat(i, j) == i # j /\ parsed[i].old_cat = parsed[j].old_cat

\* C1 as stated: a category that is old_cat of two or more instructions of
\* the parsed list has none of those instructions executed.
C1_SharedOldCatNeverExecuted ==
    \A i, j \in 1..Len(parsed) :
        SameOldCat(i, j) => parsed[i] \notin Range(executed)

\* C1 amended: a category that is old_cat of two or more instructions of the
\* parsed list that are not exact duplicates of each other has none of those
\* instructions executed.
C1_ContestedOldCatNeverExecuted ==
    \A i, j \in 1..Len(parsed) :
        (SameOldCat(i, j) /\ parsed[i] # parsed[j])
            => parsed[i] \notin Range(executed)

\* Two different instructions share their old_cat, the first of them would
\* pass every other test, and the run is over.
C1_Witness ==
    /\ pc = "done"
    /\ Len(parsed) = 2
    /\ SameOldCat(1, 2) /\ parsed[1] # parsed[2]
    /\ ~InvolvesDisambig(parsed[1])
    /\ check_instruction(parsed[1])
    /\ executed = <<>>

ModeCardinality(instruction) ==
    /\ instruction.mode \in Range(MODES)
    /\ instruction.mode = "empty" => Len(instruction.new_cats) = 0
    /\ instruction.mode = "move" => Len(instruction.new_cats) = 1
    /\ instruction.mode = "retain" => Len(instruction.new_cats) = 0
    /\ instruction.mode = "merge" => Len(instruction.new_cats) >= 1

\* C2: every executed instruction satisfies the mode cardinality rule
\* (empty: no new category, move: exactly one, retain: none, merge: at
\* least one), and validation fails for an instruction of any other mode.
C2_ModeCardinality ==
    /\ \A i \in 1..Len(executed) : ModeCardinality(executed[i])
    /\ \A o \in Categories, n \in NewCatSeqs, f \in BOOLEAN :
          ~check_instruction(Instr("rename", o, n, f))

\* A move was executed although the list also held a move with two targets
\* and a merge with none.
C2_Witness ==
    /\ pc = "done"
    /\ \E i \in 1..Len(executed) : executed[i].mode = "move"
    /\ \E i \in 1..Len(instructions) :
          /\ instructions[i].mode \in {"move", "merge"}
          /\ Len(instructions[i].new_cats) # 1
          /\ ~Contested(instructions[i])
          /\ instructions[i] \notin Range(executed)

\* C3: validation rejects, in every mode and every state of the store, an
\* instruction whose old_cat is among its new_cats, and no such instruction
\* is ever executed.
C3_OldCatNeverTarget ==
    /\ \A ins \in InstructionSet :
          ins.old_cat \in Range(ins.new_cats) => ~check_instruction(ins)
    /\ \A i \in 1..Len(executed) :
          executed[i].old_cat \notin Range(executed[i].new_cats)

\* The instruction just decided names its old_cat as a later target, was
\* neither contested nor a disambiguation, and was not executed.
C3_Witness ==
    /\ pc = "decide"
    /\ di > 1
    /\ LET ins == instructions[di - 1]
       IN  /\ Len(ins.new_cats) = 2
           /\ ins.old_cat = ins.new_cats[2]
           /\ ins.old_cat # ins.new_cats[1]
           /\ ins.mode = "merge"
           /\ ~Contested(ins)
           /\ ~InvolvesDisambig(ins)
           /\ check_merge(ins)
           /\ ins \notin Range(executed)

\* C5: a rejected instruction never blocks the rest of the batch: an
\* instruction that the loop reaches and that is in no marked category,
\* involves no disambiguation and passes check_instruction is executed; any
\* other is passed over and the loop goes on with the next one; the loop
\* ends only after the last instruction.
C5_Decision ==
    Deciding =>
        IF /\ Cats(cur) \cap skip = {}
           /\ \A c \in Cats(cur) : kind[c] # "disambig"
           /\ check_instruction(cur)
        THEN executed' = Append(executed, cur)
        ELSE pc' = "decide" /\ di' = di + 1 /\ executed' = executed

C6_LaterInstructionsDecided ==
    pc \in {"done", "aborted"} => di >= Len(instructions)

FirstPos(instruction) ==
    CHOOSE i \in 1..Len(parsed) :
        /\ parsed[i] = instruction
        /\ \A j \in 1..(i - 1) : parsed[j] # instruction

\* C7: executed instructions run in their original order, one at a time:
\* the calls of do_instruction follow the order of the parsed list, the
\* store operations under way belong to the instruction started last, and
\* an instruction is validated or started only when the fan-out and the
\* post-rewrite steps of the one before are complete.
C7_OrderNoInterleaving ==
    /\ \A a, b \in 1..Len(executed) :
          a < b => FirstPos(executed[a]) < FirstPos(executed[b])
    /\ pc \in {"decide", "done"} => Idle
    /\ pc \notin {"collect", "decide", "done"} =>
          /\ executed[Len(executed)] = cur
          /\ \A k \in 1..Len(ops) : ops[k].cat \in Cats(cur)

\* A move onto the title of a category that the instruction before emptied
\* has been carried out by the store.
C7_Witness ==
    /\ pc = "ret"
    /\ di = 2
    /\ Len(executed) = 2
    /\ executed[1].mode = "empty"
    /\ cur.mode = "move"
    /\ cur.new_cats = <<executed[1].old_cat>>
    /\ Op("move", cur.old_cat, "ok") \in Range(ops)

HasOp(o, r) == \E k \in 1..Len(ops) : ops[k].op = o /\ ops[k].res = r

\* C9: in empty mode the emptiness test comes only after every fan-out page
\* was treated and the sleep is over; when old_cat then exists and is empty
\* its deletion is requested, and once the store has deleted it every
\* redirect to it is deleted before do_instruction returns.
C9_EmptyModeDeletion ==
    (pc \notin {"collect", "decide", "done"} /\ cur.mode = "empty") =>
        /\ pc = "check" => todo = 0 /\ HasOp("sleep", "ok")
        /\ \A k \in 1..Len(ops) :
              ops[k].op = "isEmptyCategory" =>
                  /\ todo = 0
                  /\ \E s \in 1..(k - 1) :
                        /\ ops[s].op = "sleep"
                        /\ \A t \in 1..Len(ops) :
                              ops[t].op = "treat_page" => t < s
        /\ (pc = "ret" /\ HasOp("isEmptyCategory", "yes")) =>
              (HasOp("delete", "ok") \/ HasOp("delete", "kept"))
        /\ (pc = "ret" /\ HasOp("delete", "ok")) =>
              /\ ~exists(cur.old_cat)
              /\ redirs = 0

\* An empty-mode instruction whose page was rewritten has returned after the
\* category and a redirect to it were deleted.
C9_Witness ==
    /\ pc = "ret"
    /\ cur.mode = "empty"
    /\ HasOp("treat_page", "saved")
    /\ HasOp("isEmptyCategory", "yes")
    /\ HasOp("delete", "ok")
    /\ HasOp("delete_redirect", "ok")

\* ------------------------------------------------------------ CfdBot
\* A page text is a sequence of tokens: a category link [[Category:c|key]]
\* (colon: written [[:Category:c|key]]), a line break, other text that holds
\* no link, and a parameter of an "update" template whose value names a
\* category.  Parsing and str() of the parse tree keep the tokens as they are.
NumTitles == 3
MaxTextLen == 3
MaxRuns == 2

Titles == 1..NumTitles
SortKeys == {"", "k"}
TEXTLINK_NAMESPACES == {118}
Namespaces == {0, 118}

Link(c, k, colon) == [t |-> "link", cat |-> c, key |-> k, colon |-> colon]
NL == [t |-> "nl", cat |-> 0, key |-> "", colon |-> FALSE]
Txt == [t |-> "text", cat |-> 0, key |-> "", colon |-> FALSE]
Param(c) == [t |-> "param", cat |-> c, key |-> "", colon |-> FALSE]

Tokens ==
    {Link(c, k, colon) : c \in Titles, k \in SortKeys, colon \in BOOLEAN}
        \cup {NL, Txt} \cup {Param(c) : c \in Titles}

Texts == UNION {[1..n -> Tokens] : n \in 0..MaxTextLen}

\* sorted(self.opt.new_cats, reverse=True)
RECURSIVE InsertDesc(_, _)
InsertDesc(c, s) ==
    IF s = <<>> THEN <<c>>
    ELSE IF c >= s[1] THEN <<c>> \o s
    ELSE <<s[1]>> \o InsertDesc(c, Tail(s))

RECURSIVE SortedReverse(_)
SortedReverse(s) ==
    IF s = <<>> THEN <<>> ELSE InsertDesc(s[1], SortedReverse(Tail(s)))

\* CfdBot(**bot_options): the options as __init__ leaves them.
CfdBot(old_cat, new_cats) ==
    [old_cat |-> old_cat, new_cats |-> SortedReverse(new_cats)]

\* treat_templates: with one new category and an "update" template on the
\* page, every parameter naming old_cat is set to the new category.
treat_templates(text) ==
    IF Len(opt.new_cats) # 1 THEN text
    ELSE IF ~\E i \in 1..Len(text) : text[i].t = "param" THEN text
    ELSE [i \in 1..Len(text) |->
            IF text[i].t = "param" /\ text[i].cat = opt.old_cat
            THEN Param(opt.new_cats[1])
            ELSE text[i]]

\* wikicode.insert_after(old_cat_link, value)
InsertAfter(text, i, value) ==
    SubSeq(text, 1, i) \o value \o SubSeq(text, i + 1, Len(text))

\* The loop of lines 200-205: each missing category is inserted right after
\* the old link, in the order of new_cats.
RECURSIVE InsertLoop(_, _, _, _, _)
InsertLoop(text, i, new_cats, cats, textlinks) ==
    IF new_cats = <<>> THEN text
    ELSE InsertLoop(
            IF new_cats[1] \notin cats
            THEN InsertAfter(text, i, <<NL, Link(new_cats[1], "", textlinks)>>)
            ELSE text,
            i, Tail(new_cats), cats, textlinks)

\* replaceExcept(text, re.compile(rf"\n?{re.escape(str(old_cat_link))}"), "")
RECURSIVE replaceExcept(_, _)
replaceExcept(text, old_cat_link) ==
    IF text = <<>> THEN <<>>
    ELSE IF Len(text) >= 2 /\ text[1] = NL /\ text[2] = old_cat_link
         THEN replaceExcept(Tail(Tail(text)), old_cat_link)
    ELSE IF text[1] = old_cat_link
         THEN replaceExcept(Tail(text), old_cat_link)
    ELSE <<text[1]>> \o replaceExcept(Tail(text), old_cat_link)

Max(S) == CHOOSE x \in S : \A y \in S : y <= x

\* The wikilink the loop of lines 172-188 leaves in old_cat_link: the last
\* one whose category is old_cat.
OldCatLink(OldLinks) == Max(OldLinks)

\* A retitle that rebuilds the link from the new title alone.
RetitleDropKey(text, i, c) ==
    [text EXCEPT ![i] = Link(c, "", text[i].colon)]

\* old_cat_link.title = f"{prefix}{new_cats[0].title()}": the link keeps its
\* place, its sort key and its leading colon.
Retitle(text, i, c) ==
    [text EXCEPT ![i].cat = c]

treat_wikilinks(text, textlinks) ==
    LET Links == {i \in 1..Len(text) :
                     text[i].t = "link" /\ text[i].colon = textlinks}
        cats == {text[i].cat : i \in Links}
        OldLinks == {i \in Links : text[i].cat = opt.old_cat}
        new_cats == opt.new_cats
    IN  IF OldLinks = {} THEN text
        ELSE LET old_cat_link == OldCatLink(OldLinks)
             IN  IF Len(new_cats) = 1 /\ new_cats[1] \notin cats
                 THEN Retitle(text, old_cat_link, new_cats[1])
                 ELSE replaceExcept(
                         InsertLoop(text, old_cat_link, new_cats, cats, textlinks),
                         text[old_cat_link])

\* The text treat_page computes for the page.
treat_page(text) ==
    LET first == treat_wikilinks(treat_templates(text), FALSE)
    IN  IF namespace \in TEXTLINK_NAMESPACES
        THEN treat_wikilinks(first, TRUE)
        ELSE first

\* A bot with validated options (old_cat is not in new_cats) meets a page.
InitRewrite ==
    /\ page_text \in Texts
    /\ namespace \in Namespaces
    /\ \E old_cat \in Titles :
         \E new_cats \in UNION {[1..n -> Titles \ {old_cat}] : n \in 0..MaxNewCats} :
            opt = CfdBot(old_cat, new_cats)
    /\ original = page_text
    /\ outcomes = <<>>
    /\ parsed = <<>>
    /\ self_instructions = <<>>
    /\ instructions = <<>>
    /\ seen = {}
    /\ skip = {}
    /\ di = 1
    /\ pc = "done"
    /\ kind = [c \in Categories |-> "plain"]
    /\ Idle
    /\ NoParse
    /\ NoRetain
    /\ NoMain
    /\ NoSearch
    /\ NoHistory

\* treat_page, text changed: put_current(text, ...)
TreatPageSave ==
    /\ Len(outcomes) < MaxRuns
    /\ treat_page(page_text) # page_text
    /\ page_text' = treat_page(page_text)
    /\ outcomes' = Append(outcomes, "save")
    /\ UNCHANGED <<namespace, opt, original>>
    /\ UNCHANGED <<cvars, pvars, svars, mvars, dvars, hvars>>

\* treat_page, text unchanged: current_page.purge(forcelinkupdate=True)
TreatPagePurge ==
    /\ Len(outcomes) < MaxRuns
    /\ treat_page(page_text) = page_text
    /\ outcomes' = Append(outcomes, "purge")
    /\ UNCHANGED <<page_text, namespace, opt, original>>
    /\ UNCHANGED <<cvars, pvars, svars, mvars, dvars, hvars>>

NextRewrite ==
    \/ TreatPageSave
    \/ TreatPagePurge

SpecRewrite == InitRewrite /\ [][NextRewrite]_vars

\* ------------------------------------------------- claims on the rewrite
DirectLinks(text, c) ==
    {i \in 1..Len(text) : text[i].t = "link" /\ ~text[i].colon /\ text[i].cat = c}

\* C4: the page rewrite is idempotent: a second treat_page with the same
\* options on the text the first one produced leaves the text unchanged and
\* takes the purge branch, not the save branch.
C4_RewriteIdempotent ==
    Len(outcomes) = 2 => outcomes[2] = "purge"

\* C8: after the rewrite of a page its text holds no direct category link
\* whose target is old_cat, however many such links it had.
C8_NoOldLinkLeft ==
    Len(outcomes) >= 1 => DirectLinks(page_text, opt.old_cat) = {}

\* The links to the categories of s (given in descending order), one per
\* line, in ascending order.
RECURSIVE LinkLines(_)
LinkLines(s) ==
    IF Len(s) = 1 THEN <<Link(s[1], "", FALSE)>>
    ELSE LinkLines(Tail(s)) \o <<NL, Link(s[1], "", FALSE)>>

\* C10: with two or more new categories, the page that is the single link
\* [[Category:Old]] is rewritten into exactly the links to the new
\* categories, one per line in ascending title order, and nothing else.
C10_SingleLinkBecomesNewLinks ==
    (/\ original = <<Link(opt.old_cat, "", FALSE)>>
     /\ Len(opt.new_cats) >= 2
     /\ Cardinality(Range(opt.new_cats)) = Len(opt.new_cats)
     /\ Len(outcomes) = 1)
    => page_text = LinkLines(opt.new_cats)

\* The links to c of either kind.
AnyLinks(text, c) ==
    {i \in 1..Len(text) : text[i].t = "link" /\ text[i].cat = c}

C11_Case ==
    /\ Len(outcomes) = 1
    /\ Len(opt.new_cats) = 1
    /\ AnyLinks(original, opt.new_cats[1]) = {}
    /\ DirectLinks(original, opt.old_cat) # {}

\* C11: with exactly one new category that is not linked on the page, the
\* rewrite only retitles an old category link where it stands: the text
\* keeps its length (no link inserted or removed), every token that differs
\* is a link to old_cat that now names the new category with the same sort
\* key and the same kind, the last direct link to old_cat is among them, and
\* all other text outside template parameters is as it was.
C11_SingleTargetInPlace ==
    C11_Case =>
        /\ Len(page_text) = Len(original)
        /\ \A i \in 1..Len(original) :
              \/ page_text[i] = original[i]
              \/ original[i].t = "param"
              \/ /\ original[i].t = "link"
                 /\ original[i].cat = opt.old_cat
                 /\ page_text[i] = Link(opt.new_cats[1], original[i].key,
                                        original[i].colon)
        /\ LET last == Max(DirectLinks(original, opt.old_cat))
           IN  page_text[last] = Link(opt.new_cats[1], original[last].key, FALSE)

C11_Witness ==
    /\ C11_Case
    /\ outcomes = <<"save">>
    /\ \E i \in DirectLinks(original, opt.old_cat) :
          /\ original[i].key = "k"
          /\ page_text[i] = Link(opt.new_cats[1], "k", FALSE)
    /\ \E i \in 1..Len(original) : original[i] = Txt

\* --------------------------------------- further claims on the checker
\* The categories the collection pass marks, given the list without its
\* exact duplicates: each old_cat that an earlier instruction of the list
\* already named, as its old_cat or as one of its new_cats.
MarkedBy(list) ==
    {list[j].old_cat : j \in {j \in 1..Len(list) :
        \E i \in 1..(j - 1) : list[j].old_cat \in Cats(list[i])}}

OldCatCount(list, c) == Cardinality({i \in 1..Len(list) : list[i].old_cat = c})

\* C15 as stated: after the collection pass a category is marked contested
\* if and only if it is the old_cat of more than one non-duplicate
\* instruction, whatever its occurrences as a new_cat.
C15_ContestedIffSharedOldCat ==
    pc # "collect" =>
        \A c \in Categories : c \in skip <=> OldCatCount(instructions, c) > 1

\* C15 amended: after the collection pass a category is marked contested if
\* and only if it is the old_cat of a non-duplicate instruction and an
\* earlier non-duplicate instruction already named it, as old_cat or as a
\* new_cat.
C15_ContestedIffSeenEarlier ==
    pc # "collect" => skip = MarkedBy(instructions)

\* A category that is old_cat only once is marked, having been a new_cat of
\* the instruction before.
C15_Witness ==
    /\ pc = "done"
    /\ Len(instructions) = 2
    /\ instructions[2].old_cat \in Range(instructions[1].new_cats)
    /\ instructions[1].old_cat # instructions[2].old_cat
    /\ skip = {instructions[2].old_cat}

\* C16: when a category is the old_cat of one instruction of the page and a
\* new_cat of a different one, neither of the two is executed, whichever of
\* them comes first.
C16_SourceNeverAlsoTarget ==
    \A i, j \in 1..Len(parsed) :
        (/\ parsed[i] # parsed[j]
         /\ parsed[i].old_cat \in Range(parsed[j].new_cats))
            => /\ parsed[i] \notin Range(executed)
               /\ parsed[j] \notin Range(executed)

NoRepeat(list) ==
    \A i, j \in 1..Len(list) : i # j => list[i] # list[j]

\* The first occurrences of the instructions of list, in order.
FirstOccurrences(list) ==
    LET keep == {i \in 1..Len(list) : \A h \in 1..(i - 1) : list[h] # list[i]}
        nth(k) == CHOOSE i \in keep : Cardinality({h \in keep : h < i}) = k - 1
    IN  [k \in 1..Cardinality(keep) |-> nth(k)]

\* C17: exact duplicates are collapsed to their first occurrence before the
\* categories are collected: the list the decision loop walks is the parsed
\* list's first occurrences, no instruction is executed twice, and a
\* category is marked contested only on account of two different
\* instructions.
C17_DuplicatesCollapsed ==
    pc # "collect" =>
        /\ NoRepeat(instructions)
        /\ LET first == FirstOccurrences(parsed)
           IN  /\ Len(instructions) = Len(first)
               /\ \A k \in 1..Len(first) : instructions[k] = parsed[first[k]]
        /\ NoRepeat(executed)
        /\ \A c \in skip :
              \E i, j \in 1..Len(parsed) :
                 /\ parsed[i] # parsed[j]
                 /\ parsed[j].old_cat = c
                 /\ c \in Cats(parsed[i])

\* The page repeats one instruction; it was executed once and the run is
\* over.
C17_Witness ==
    /\ pc = "done"
    /\ Len(parsed) = 2
    /\ parsed[1] = parsed[2]
    /\ executed = <<parsed[1]>>
    /\ skip = {}

\* The merge instruction under execution has just had its old category
\* reported as existing, empty and not a category redirect.
MergeCheckPassed ==
    /\ pc \in {"delete", "redirect_cat", "ret"}
    /\ cur.mode = "merge"
    /\ ops # <<>>
    /\ ops[Len(ops)] = Op("isEmptyCategory", cur.old_cat, "yes")
    /\ ~isCategoryRedirect(cur.old_cat)

\* C19 as stated: in merge mode, when old_cat exists, is empty and is not a
\* category redirect at the test after the rewrite and the delay, the flag
\* alone decides: set, the page is made a category redirect; not set, it is
\* deleted; for any number of new categories.
C19_RedirectByFlagAlone ==
    MergeCheckPassed =>
        pc = IF cur.redirect THEN "redirect_cat" ELSE "delete"

\* C19 amended: the page is made a category redirect to the first new
\* category, and its talk page annotated, when the flag is set and there is
\* exactly one new category; otherwise it is deleted.
C19_RedirectByFlagAndSingleTarget ==
    /\ MergeCheckPassed =>
          pc = IF cur.redirect /\ Len(cur.new_cats) = 1
               THEN "redirect_cat" ELSE "delete"
    /\ (pc \in {"redirect_cat", "delete"} /\ cur.mode = "merge") =>
          /\ HasOp("isEmptyCategory", "yes")
          /\ HasOp("sleep", "ok")
          /\ todo = 0
    /\ (pc = "ret" /\ cur.mode = "merge" /\ HasOp("redirect_cat", "ok")) =>
          /\ cur.redirect /\ Len(cur.new_cats) = 1
          /\ isCategoryRedirect(cur.old_cat)
          /\ HasOp("add_old_cfd", "ok") \/ HasOp("add_old_cfd", "present")
          /\ ~HasOp("delete", "ok")
    /\ (pc = "ret" /\ cur.mode = "merge" /\ HasOp("delete", "ok")) =>
          /\ ~(cur.redirect /\ Len(cur.new_cats) = 1)
          /\ ~HasOp("redirect_cat", "ok")

\* A merge with the flag set and one new category has made the old category
\* a redirect and annotated its talk page.
C19_Witness ==
    /\ pc = "ret"
    /\ cur.mode = "merge"
    /\ cur.redirect
    /\ Len(cur.new_cats) = 1
    /\ HasOp("redirect_cat", "ok")
    /\ HasOp("add_old_cfd", "ok")

\* ------------------------------------------- claims on do_instruction

InDo == pc \notin {"collect", "decide", "done"}

LastOp == ops[Len(ops)]

\* C24: in move mode the fan-out runs whether or not the rename of the
\* category page succeeded: the rename is the first operation, its failure
\* leads to the fan-out and never ends the instruction, and the strip of the
\* CFD template on the new category page is attempted only right after a
\* rename that succeeded.
C24_MoveToleratesRenameFailure ==
    (InDo /\ cur.mode = "move") =>
        /\ \A k \in 1..Len(ops) :
              /\ ops[k].op = "move" => k = 1
              /\ ops[k].op = "remove_cfd_tpl" =>
                    /\ k = 2
                    /\ ops[1] = Op("move", cur.old_cat, "ok")
                    /\ ops[k].cat = cur.new_cats[1]
              /\ ops[k].op = "treat_page" => k > 1 /\ ops[1].op = "move"
        /\ (ops # <<>> /\ LastOp = Op("move", cur.old_cat, "ok")) =>
              pc = "strip_new"
        /\ (ops # <<>> /\ LastOp = Op("move", cur.old_cat, "error")) =>
              pc \in {"run", "sleep", "ret"}
        /\ (ops # <<>> /\ LastOp.op = "remove_cfd_tpl") =>
              pc \in {"run", "sleep", "ret"}
        /\ pc = "strip_new" => HasOp("move", "ok")
        /\ pc = "aborted" => LastOp.op = "redirect_cat"
        /\ pc \in {"sleep", "redirect_cat", "ret"} => todo = 0

\* A move whose rename failed has rewritten a member page and returned.
C24_Witness ==
    /\ pc = "ret"
    /\ cur.mode = "move"
    /\ HasOp("move", "error")
    /\ HasOp("treat_page", "saved")
    /\ ~HasOp("remove_cfd_tpl", "ok")

DeletesOrRedirects(k) ==
    \/ ops[k].op = "delete"
    \/ ops[k].op = "redirect_cat" /\ cur.mode = "merge"

RetainOps == {"remove_cfd_tpl", "add_old_cfd"}

C26_RetainSteps ==
    (InDo /\ cur.mode = "retain") =>
        /\ pc \in {"remove_cfd_tpl", "add_old_cfd", "ret", "aborted"}
        /\ todo = 0
        /\ \A k \in 1..Len(ops) :
              /\ ops[k].op \in RetainOps
              /\ ops[k].cat = cur.old_cat

C26_RetainKeepsStore ==
    (InDo /\ cur.mode = "retain") => kind' = kind

\* C26: a retain instruction operates on the old category only, by the
\* strip of the CFD template block from its page and the annotation of its
\* talk page: no fan-out page is treated, and no page is deleted, renamed
\* or made a redirect.
C26_RetainTouchesOldCatOnly ==
    []C26_RetainSteps /\ [][C26_RetainKeepsStore]_vars

\* A retain has stripped the page of the old category and annotated its
\* talk page.
C26_Witness ==
    /\ pc = "ret"
    /\ cur.mode = "retain"
    /\ ops = <<Op("remove_cfd_tpl", cur.old_cat, "ok"),
               Op("add_old_cfd", cur.old_cat, "ok")>>

\* ------------------------------------------- retain: result and action
\* A text is a sequence of words, written as in the page and separated by
\* single spaces; result and action of an instruction are texts too.
MaxSuffixLen == 5

SuffixWords ==
    {"as", "no", "No", "consensus", "to", "for", "not", "merged", "merge",
     "keep", "Keep"}

Suffixes == UNION {[1..n -> SuffixWords] : n \in 0..MaxSuffixLen}

\* What get_result_action may answer: nothing, or a recorded result with a
\* proposed action.
Answers == {<< <<>>, <<>> >>, << <<"delete">>, <<"deleting">> >>}

\* str.lower() and the case folding of re.I, on the words in use.
lower(w) ==
    IF w = "No" THEN "no" ELSE IF w = "Keep" THEN "keep" ELSE w

\* re.sub(r"ed$", "e", w), on the words in use.
EdToE(w) == IF w = "merged" THEN "merge" ELSE w

Min(S) == CHOOSE x \in S : \A y \in S : x <= y

\* Where r"\b(no consensus) (?:for|to) (\w+)\b" matches, flags=re.I.
nc_matches(text) ==
    {i \in 1..(Len(text) - 3) :
        /\ lower(text[i]) = "no"
        /\ lower(text[i + 1]) = "consensus"
        /\ lower(text[i + 2]) \in {"for", "to"}}

\* Where r"\b(not )(\w+)\b" matches, flags=re.I.
not_matches(text) ==
    {i \in 1..(Len(text) - 1) : lower(text[i]) = "not"}

\* "keep" in suffix.lower()
HasKeep(text) == \E i \in 1..Len(text) : lower(text[i]) = "keep"

\* A derivation that tries the "not" pattern before "no consensus".
retain_not_first(text, answer) ==
    IF not_matches(text) # {}
    THEN LET i == Min(not_matches(text))
         IN  << <<text[i], text[i + 1]>>, <<EdToE(text[i + 1])>> >>
    ELSE IF nc_matches(text) # {}
    THEN LET i == Min(nc_matches(text))
         IN  << <<text[i], text[i + 1]>>, <<text[i + 3]>> >>
    ELSE IF HasKeep(text) THEN << <<"keep">>, <<"delete">> >>
    ELSE answer

\* Lines 374-391: result and action of a retain entry, from its suffix and
\* from what the discussion page records.  The groups of the first match are
\* taken as the page writes them.
retain_result_action(text, answer) ==
    IF nc_matches(text) # {}
    THEN LET i == Min(nc_matches(text))
         IN  << <<text[i], text[i + 1]>>, <<text[i + 3]>> >>
    ELSE IF not_matches(text) # {}
    THEN LET i == Min(not_matches(text))
         IN  << <<text[i], text[i + 1]>>, <<EdToE(text[i + 1])>> >>
    ELSE IF HasKeep(text) THEN << <<"keep">>, <<"delete">> >>
    ELSE answer

\* A retain entry with some suffix meets some record of the discussion.
InitRetain ==
    /\ suffix \in Suffixes
    /\ recorded \in Answers
    /\ derived = <<>>
    /\ parsed = <<>>
    /\ self_instructions = <<>>
    /\ instructions = <<>>
    /\ seen = {}
    /\ skip = {}
    /\ di = 1
    /\ pc = "done"
    /\ kind = [c \in Categories |-> "plain"]
    /\ Idle
    /\ NoPage
    /\ NoParse
    /\ NoMain
    /\ NoSearch
    /\ NoHistory

\* instruction["result"], instruction["action"] are set.
DeriveRetain ==
    /\ derived = <<>>
    /\ derived' = retain_result_action(suffix, recorded)
    /\ UNCHANGED <<suffix, recorded>>
    /\ UNCHANGED <<cvars, rvars, pvars, mvars, dvars, hvars>>

NextRetain == DeriveRetain

SpecRetain == InitRetain /\ [][NextRetain]_vars

\* ----------------------------------- claims on the retain derivation
\* C12 as stated: (a) a "no consensus for/to ACTION" match gives result
\* "no consensus" and action ACTION, whatever else matches; else (b) a
\* "not ACTIONed" match gives result "not ACTIONed" and as action ACTIONed
\* with a trailing "ed" replaced by "e"; else (c) a suffix containing "keep"
\* gives result "keep", action "delete"; else (d) the recorded result and
\* action are used.
C12_PriorityLiteralResult ==
    derived # <<>> =>
        IF nc_matches(suffix) # {}
        THEN LET i == Min(nc_matches(suffix))
             IN  derived = << <<"no", "consensus">>, <<suffix[i + 3]>> >>
        ELSE IF not_matches(suffix) # {}
        THEN LET i == Min(not_matches(suffix))
             IN  derived = << <<"not", suffix[i + 1]>>,
                              <<EdToE(suffix[i + 1])>> >>
        ELSE IF HasKeep(suffix) THEN derived = << <<"keep">>, <<"delete">> >>
        ELSE derived = recorded

\* C12 amended: the same priority, with the result of (a) and (b) being the
\* matched words in the letter case the suffix has them in.
C12_PriorityMatchedText ==
    derived # <<>> =>
        IF nc_matches(suffix) # {}
        THEN LET i == Min(nc_matches(suffix))
             IN  /\ lower(derived[1][1]) = "no"
                 /\ lower(derived[1][2]) = "consensus"
                 /\ derived[1] = SubSeq(suffix, i, i + 1)
                 /\ derived[2] = <<suffix[i + 3]>>
        ELSE IF not_matches(suffix) # {}
        THEN LET i == Min(not_matches(suffix))
             IN  /\ derived[1] = SubSeq(suffix, i, i + 1)
                 /\ derived[2] = <<EdToE(suffix[i + 1])>>
        ELSE IF HasKeep(suffix) THEN derived = << <<"keep">>, <<"delete">> >>
        ELSE derived = recorded

\* The suffix "as no consensus to merge" has given result "no consensus" and
\* action "merge".
C12_Witness ==
    /\ suffix = <<"as", "no", "consensus", "to", "merge">>
    /\ derived = << <<"no", "consensus">>, <<"merge">> >>

\* ------------------------------------------------------------------ main
MaxGen == 3

\* A page of the generator: whether its title starts with "Categories for
\* discussion/Working", whether its namespace is 4, and whether its edit
\* protection is "sysop".
GenPages == [prefix : BOOLEAN, project : BOOLEAN, sysop : BOOLEAN]

Generators == UNION {[1..n -> GenPages] : n \in 0..MaxGen}

\* The test of CFDWPage.__init__.
IsCFDWPage(page) == page.prefix /\ page.project

\* page.protection().get("edit", ("", ""))[0] == "sysop"
IsProtected(page) == page.sysop

InitMain ==
    /\ gen \in Generators
    /\ gi = 1
    /\ mpc = "loop"
    /\ handled = <<>>
    /\ parsed = <<>>
    /\ self_instructions = <<>>
    /\ instructions = <<>>
    /\ seen = {}
    /\ skip = {}
    /\ di = 1
    /\ pc = "done"
    /\ kind = [c \in Categories |-> "plain"]
    /\ Idle
    /\ NoPage
    /\ NoParse
    /\ NoRetain
    /\ NoSearch
    /\ NoHistory

InLoop == mpc = "loop" /\ gi <= Len(gen)

Handle(what, to) ==
    /\ handled' = Append(handled, what)
    /\ gi' = gi + 1
    /\ mpc' = to
    /\ UNCHANGED gen
    /\ UNCHANGED <<cvars, rvars, pvars, svars, dvars, hvars>>

\* CFDWPage(page) raises ValueError; nothing in main catches it.
ConstructRaises ==
    /\ InLoop
    /\ ~IsCFDWPage(gen[gi])
    /\ Handle("rejected", "aborted")

\* The page is a working page without the protection: next page.
SkipUnprotected ==
    /\ InLoop
    /\ IsCFDWPage(gen[gi])
    /\ ~IsProtected(gen[gi])
    /\ Handle("skipped", "loop")

\* page.parse() is called and returns.
ParsePage ==
    /\ InLoop
    /\ IsCFDWPage(gen[gi])
    /\ IsProtected(gen[gi])
    /\ Handle("parsed", "loop")

\* page.parse() is called and an exception leaves it (a store operation of
\* do_instruction raised).
ParsePageRaises ==
    /\ InLoop
    /\ IsCFDWPage(gen[gi])
    /\ IsProtected(gen[gi])
    /\ Handle("parsed", "aborted")

\* The generator is exhausted: return 0.
MainReturn ==
    /\ mpc = "loop"
    /\ gi > Len(gen)
    /\ mpc' = "done"
    /\ UNCHANGED <<gen, gi, handled>>
    /\ UNCHANGED <<cvars, rvars, pvars, svars, dvars, hvars>>

NextMain ==
    \/ ConstructRaises
    \/ SkipUnprotected
    \/ ParsePage
    \/ ParsePageRaises
    \/ MainReturn

SpecMain == InitMain /\ [][NextMain]_vars

\* --------------------------------------------------------- claims on main
Qualifies(page) == page.prefix /\ page.project /\ page.sysop

\* C14: a page of the generator that is not under the working-page prefix,
\* not in the project namespace or not protected at the sysop tier is never
\* parsed, and when main has ended every page of the generator that does
\* qualify has been parsed, whatever pages came before it.
C14_SkipAndContinue ==
    /\ \A i \in 1..Len(handled) :
          handled[i] = "parsed" => Qualifies(gen[i])
    /\ mpc \in {"done", "aborted"} =>
          \A i \in 1..Len(gen) :
             Qualifies(gen[i]) => (i <= Len(handled) /\ handled[i] = "parsed")

\* ------------------------------------------------------------ _parse_line
\* A line is the sequence of its top-level nodes: a Text (its words), a node
\* cat_from_node() turns into a category (a category link or a CFD template),
\* a wikilink to a CFD page, a wikilink to a page that is not a CFD page
\* (CfdPage.__init__ raises ValueError), a wikilink whose title pywikibot
\* rejects (pywikibot.exceptions.Error), or any other node.
MaxLineLen == 4
NumCfd == 2

CfdPages == 1..NumCfd

TextNode(words) == [t |-> "text", words |-> words, n |-> 0]
CatNode(c) == [t |-> "cat", words |-> <<>>, n |-> c]
CfdLink(d) == [t |-> "cfdlink", words |-> <<>>, n |-> d]
BadLink == [t |-> "badlink", words |-> <<>>, n |-> 0]
ErrLink == [t |-> "errlink", words |-> <<>>, n |-> 0]
OtherNode == [t |-> "other", words |-> <<>>, n |-> 0]

LineTexts == {<<"NO", "BOT">>, <<"REDIRECT">>, <<"keep">>}

Nodes ==
    {TextNode(w) : w \in LineTexts} \cup {CatNode(c) : c \in Categories}
        \cup {CfdLink(d) : d \in CfdPages} \cup {BadLink, ErrLink, OtherNode}

\* mwparserfromhell joins adjacent text into one Text node.
NoAdjacentText(nodes) ==
    \A i \in 1..(Len(nodes) - 1) :
        ~(nodes[i].t = "text" /\ nodes[i + 1].t = "text")

LinesOf(S, n) ==
    {nodes \in UNION {[1..k -> S] : k \in 0..n} : NoAdjacentText(nodes)}

Lines == LinesOf(Nodes, MaxLineLen)

\* LineResults as line 397 builds it; raised names the exception that left
\* _parse_line, if one did.
NewLineResults ==
    [cfd_page |-> 0, old_cat |-> 0, new_cats |-> <<>>,
     prefix |-> <<>>, suffix |-> <<>>, raised |-> ""]

\* Lines 421-424: a wikilink that is no category is made a CfdPage and
\* stored, whatever was stored before.
ParseWikilink(results, node) ==
    IF node.t = "cfdlink" THEN [results EXCEPT !.cfd_page = node.n]
    ELSE IF node.t = "badlink" THEN [results EXCEPT !.raised = "ValueError"]
    ELSE IF node.t = "errlink" THEN [results EXCEPT !.raised = "Error"]
    ELSE results

\* A category match that never takes old_cat's own category as a target.
ParseCategorySkipRepeat(results, c) ==
    IF results.old_cat = 0 THEN [results EXCEPT !.old_cat = c]
    ELSE IF results.old_cat = c THEN results
    ELSE [results EXCEPT !.new_cats = Append(@, c)]

\* Lines 415-420: the first category is old_cat, each later one is appended
\* to new_cats.
ParseCategory(results, c) ==
    IF results.old_cat = 0 THEN [results EXCEPT !.old_cat = c]
    ELSE [results EXCEPT !.new_cats = Append(@, c)]

\* One turn of the loop of line 407; acc holds results and link_found.
ParseNode(acc, node, last) ==
    IF acc.results.raised # "" THEN acc
    ELSE IF node.t = "text"
    THEN IF ~acc.link_found
         THEN [acc EXCEPT !.results.prefix = node.words]
         ELSE IF last THEN [acc EXCEPT !.results.suffix = node.words]
         ELSE acc
    ELSE IF node.t = "cat"
    THEN [results |-> ParseCategory(acc.results, node.n), link_found |-> TRUE]
    ELSE IF node.t = "other" THEN acc
    ELSE [results |-> ParseWikilink(acc.results, node), link_found |-> TRUE]

RECURSIVE ParseNodes(_, _, _)
ParseNodes(nodes, index, acc) ==
    IF index > Len(nodes) THEN acc
    ELSE ParseNodes(nodes, index + 1,
                    ParseNode(acc, nodes[index], index = Len(nodes)))

_parse_line(nodes) ==
    ParseNodes(nodes, 1, [results |-> NewLineResults, link_found |-> FALSE]).results

\* _parse_line meets a line.
InitLine ==
    /\ line \in Lines
    /\ line_results = NewLineResults
    /\ ppc = "line"
    /\ mode = "none"
    /\ page_instructions = <<>>
    /\ cfd_page = 0
    /\ cfd_prefix = <<>>
    /\ cfd_suffix = <<>>
    /\ nsections = 0
    /\ nlines = 0
    /\ logged = <<>>
    /\ parsed = <<>>
    /\ self_instructions = <<>>
    /\ instructions = <<>>
    /\ seen = {}
    /\ skip = {}
    /\ di = 1
    /\ pc = "done"
    /\ kind = [c \in Categories |-> "plain"]
    /\ Idle
    /\ NoPage
    /\ NoRetain
    /\ NoMain
    /\ NoSearch
    /\ NoHistory

LineStep(to) ==
    /\ ppc = "line"
    /\ line_results' = _parse_line(line)
    /\ ppc' = to
    /\ UNCHANGED <<mode, page_instructions, cfd_page, cfd_prefix, cfd_suffix,
                   line, nsections, nlines, logged>>
    /\ UNCHANGED <<cvars, rvars, svars, mvars, dvars, hvars>>

\* _parse_line returns its results.
ParseLineReturns ==
    /\ _parse_line(line).raised = ""
    /\ LineStep("line_done")

\* An exception leaves _parse_line.
ParseLineRaises ==
    /\ _parse_line(line).raised # ""
    /\ LineStep("line_raised")

NextLine ==
    \/ ParseLineReturns
    \/ ParseLineRaises

SpecLine == InitLine /\ [][NextLine]_vars

\* -------------------------------------------------- claims on _parse_line
CfdLinksOf(nodes) == {i \in 1..Len(nodes) : nodes[i].t = "cfdlink"}

\* C20: the discussion page of a line with several wikilinks that are no
\* category matches is the first of them from the left; a later one does
\* not replace it.
C20_FirstDiscussionLinkWins ==
    (ppc = "line_done" /\ CfdLinksOf(line) # {}) =>
        line_results.cfd_page = line[Min(CfdLinksOf(line))].n

\* ------------------------------------------------- parse, _parse_section
MaxSections == 2
MaxLines == 3
MaxSectionLineLen == 2
MaxPageNodes == 4

\* The nodes the lines of the sections are made of: the texts "NO BOT" and
\* "keep", category links, links to discussion pages and a link to a page
\* that is no discussion page.
SectionNodes == Nodes \ {TextNode(<<"REDIRECT">>), ErrLink, OtherNode}

\* The lines the sections of a working page are made of.
SectionLines == LinesOf(SectionNodes, MaxSectionLineLen)

\* A section title, as the set of the mode words it contains.
SectionTitles == {t \in SUBSET Range(MODES) : Cardinality(t) <= 2}

\* Lines 327-330: the first mode of MODES the title contains.
ModeOf(title) == MODES[Min({i \in 1..Len(MODES) : MODES[i] \in title})]

\* "NO BOT" in prefix
HasNoBot(words) ==
    \E i \in 1..(Len(words) - 1) : words[i] = "NO" /\ words[i + 1] = "BOT"

\* "REDIRECT" in prefix
HasRedirect(words) == \E i \in 1..Len(words) : words[i] = "REDIRECT"

\* A section that keeps the first discussion reference it meets.
CarryFirst(r) ==
    IF r.cfd_page # 0 /\ cfd_page = 0
    THEN [cfd_page |-> r.cfd_page, cfd_prefix |-> r.prefix,
          cfd_suffix |-> r.suffix]
    ELSE [cfd_page |-> cfd_page, cfd_prefix |-> cfd_prefix,
          cfd_suffix |-> cfd_suffix]

\* Lines 351-354: the discussion reference of the section after this line.
Carry(r) ==
    IF r.cfd_page # 0
    THEN [cfd_page |-> r.cfd_page, cfd_prefix |-> r.prefix,
          cfd_suffix |-> r.suffix]
    ELSE [cfd_page |-> cfd_page, cfd_prefix |-> cfd_prefix,
          cfd_suffix |-> cfd_suffix]

\* A prefix test that looks at the line's own prefix only.
OwnPrefix(r) == r.prefix

\* f"{line_results['prefix']} {cfd_prefix}"
CombinedPrefix(r) == r.prefix \o Carry(r).cfd_prefix

\* line_results["suffix"] or cfd_suffix
CombinedSuffix(r) == IF r.suffix # <<>> THEN r.suffix ELSE Carry(r).cfd_suffix

\* Lines 355-361: the line yields an instruction.
YieldsInstruction(r) ==
    /\ Carry(r).cfd_page # 0
    /\ r.old_cat # 0
    /\ ~HasNoBot(CombinedPrefix(r))

\* find_discussion: the reference itself, or narrowed to the section the
\* search of the discussion page finds (found = 0: none).
find_discussion(d, found) == [page |-> d, section |-> found]

\* get_result_action: nothing without a section, else what the page records.
get_result_action(cfd, answer) ==
    IF cfd.section = 0 THEN << <<>>, <<>> >> ELSE answer

\* Lines 344-393: the instruction built for the line.
BuildInstruction(m, r, found, answer) ==
    LET cfd == find_discussion(Carry(r).cfd_page, found)
        ra == get_result_action(cfd, answer)
        kept == IF m = "retain"
                THEN retain_result_action(CombinedSuffix(r), ra)
                ELSE << <<>>, <<>> >>
    IN  [mode |-> m,
         old_cat |-> r.old_cat,
         new_cats |-> r.new_cats,
         cfd_page |-> cfd,
         redirect |-> (m = "merge" /\ HasRedirect(CombinedPrefix(r))),
         noredirect |-> (m = "move" /\ ~HasRedirect(CombinedPrefix(r))),
         result |-> IF m = "merge" THEN <<"merge">> ELSE kept[1],
         action |-> IF m = "merge"
                    THEN IF ra[2] # <<>> THEN ra[2] ELSE <<"merging">>
                    ELSE kept[2]]

\* An except clause that names ValueError only.
CaughtValueErrorOnly(exception) == exception = "ValueError"

\* Line 335: except (ValueError, pywikibot.exceptions.Error)
Caught(exception) == exception \in {"ValueError", "Error"}

\* parse() starts on a working page.
InitParse ==
    /\ mode = "none"
    /\ page_instructions = <<>>
    /\ cfd_page = 0
    /\ cfd_prefix = <<>>
    /\ cfd_suffix = <<>>
    /\ line = <<>>
    /\ line_results = NewLineResults
    /\ ppc = "sections"
    /\ nsections = 0
    /\ nlines = 0
    /\ logged = <<>>
    /\ parsed = <<>>
    /\ self_instructions = <<>>
    /\ instructions = <<>>
    /\ seen = {}
    /\ skip = {}
    /\ di = 1
    /\ pc = "done"
    /\ kind = [c \in Categories |-> "plain"]
    /\ Idle
    /\ NoPage
    /\ NoRetain
    /\ NoMain
    /\ NoSearch
    /\ NoHistory

NotParse == UNCHANGED <<cvars, rvars, svars, mvars, dvars>>

\* Lines 324-332: a section whose title holds no mode is passed over.
SectionWithoutMode ==
    /\ ppc = "sections"
    /\ nsections < MaxSections
    /\ nsections' = nsections + 1
    /\ UNCHANGED <<mode, page_instructions, cfd_page, cfd_prefix, cfd_suffix,
                   line, line_results, ppc, nlines, logged, hvars>>
    /\ NotParse

\* Lines 324-334, 340-341: a section with a mode; _parse_section starts.
SectionWithMode ==
    /\ ppc = "sections"
    /\ nsections < MaxSections
    /\ \E title \in SectionTitles \ {{}} : mode' = ModeOf(title)
    /\ nsections' = nsections + 1
    /\ cfd_page' = 0
    /\ cfd_prefix' = <<>>
    /\ cfd_suffix' = <<>>
    /\ line' = <<>>
    /\ line_results' = NewLineResults
    /\ ref_line' = <<>>
    /\ ppc' = "lines"
    /\ UNCHANGED <<page_instructions, nlines, logged, nnodes, origin, failed>>
    /\ NotParse

InSection == ppc = "lines" /\ nlines < MaxLines

\* The line is taken from the page.
Take(ln) ==
    /\ nnodes + Len(ln) <= MaxPageNodes
    /\ nnodes' = nnodes + Len(ln)
    /\ nlines' = nlines + 1
    /\ line' = ln

\* What the line leaves in the locals of _parse_section.
CarryOn(r) ==
    /\ cfd_page' = Carry(r).cfd_page
    /\ cfd_prefix' = Carry(r).cfd_prefix
    /\ cfd_suffix' = Carry(r).cfd_suffix

\* Lines 342-361: the line is parsed and yields no instruction.
LineWithoutInstruction ==
    /\ InSection
    /\ \E ln \in SectionLines :
          LET r == _parse_line(ln)
          IN  /\ r.raised = ""
              /\ ~YieldsInstruction(r)
              /\ Take(ln)
              /\ ref_line' = IF r.cfd_page # 0 THEN ln ELSE ref_line
              /\ line_results' = r
              /\ CarryOn(r)
    /\ UNCHANGED <<mode, page_instructions, ppc, nsections, logged, origin,
                   failed>>
    /\ NotParse

\* Lines 342-394: the line is parsed and its instruction appended.  The
\* discussion page is read when the mode asks for it.
LineWithInstruction ==
    /\ InSection
    /\ \E ln \in SectionLines :
          LET r == _parse_line(ln)
          IN  /\ r.raised = ""
              /\ YieldsInstruction(r)
              /\ Take(ln)
              /\ ref_line' = IF r.cfd_page # 0 THEN ln ELSE ref_line
              /\ line_results' = r
              /\ CarryOn(r)
              /\ \E found \in 0..1 :
                 \E answer \in IF found = 1 /\ mode \in {"merge", "retain"}
                               THEN Answers ELSE {<< <<>>, <<>> >>} :
                    page_instructions' =
                        Append(page_instructions,
                               BuildInstruction(mode, r, found, answer))
    /\ origin' = Append(origin, nsections)
    /\ UNCHANGED <<mode, ppc, nsections, logged, failed>>
    /\ NotParse

\* The exceptions a line can end in: the one _parse_line raises; an Error of
\* the store when find_discussion reads the discussion page; a ParserError
\* (an Exception) of mwparserfromhell.parse.
RaisedBy(ln) ==
    LET r == _parse_line(ln)
    IN  IF r.raised # "" THEN {r.raised, "ParserError"}
        ELSE IF YieldsInstruction(r) THEN {"Error", "ParserError"}
        ELSE {"ParserError"}

LineRaises(ln, exception, to) ==
    /\ InSection
    /\ exception \in RaisedBy(ln)
    /\ Take(ln)
    /\ line_results' = [_parse_line(ln) EXCEPT !.raised = exception]
    /\ ppc' = to
    /\ UNCHANGED <<mode, page_instructions, cfd_page, cfd_prefix, cfd_suffix,
                   nsections, ref_line, origin>>
    /\ NotParse

\* Lines 333-336: the exception is caught and logged; the section is over.
LineRaisesCaught ==
    \E ln \in SectionLines : \E exception \in {"ValueError", "Error", "ParserError"} :
        /\ Caught(exception)
        /\ LineRaises(ln, exception, "sections")
        /\ logged' = Append(logged, exception)
        /\ failed' = failed \cup {nsections}

\* The exception is none of line 335: it leaves parse().
LineRaisesUncaught ==
    \E ln \in SectionLines : \E exception \in {"ValueError", "Error", "ParserError"} :
        /\ ~Caught(exception)
        /\ LineRaises(ln, exception, "aborted")
        /\ UNCHANGED <<logged, failed>>

\* The section has no more lines.
SectionEnds ==
    /\ ppc = "lines"
    /\ ppc' = "sections"
    /\ UNCHANGED <<mode, page_instructions, cfd_page, cfd_prefix, cfd_suffix,
                   line, line_results, nsections, nlines, logged, hvars>>
    /\ NotParse

\* Line 337: the page has no more sections; _check_run is called.
CallCheckRun ==
    /\ ppc = "sections"
    /\ ppc' = "check_run"
    /\ UNCHANGED <<mode, page_instructions, cfd_page, cfd_prefix, cfd_suffix,
                   line, line_results, nsections, nlines, logged, hvars>>
    /\ NotParse

NextParse ==
    \/ SectionWithoutMode
    \/ SectionWithMode
    \/ LineWithoutInstruction
    \/ LineWithInstruction
    \/ LineRaisesCaught
    \/ LineRaisesUncaught
    \/ SectionEnds
    \/ CallCheckRun

SpecParse == InitParse /\ [][NextParse]_vars

\* ------------------------------------------------------ claims on parse
\* C13 as stated: whatever the kind of an exception raised while a line of
\* a section is parsed, it is caught inside parse: parse is never left by
\* it, the remaining sections are parsed and the checker runs.
C13_AnyExceptionCaught ==
    ppc # "aborted"

\* A line has just ended in an exception.
JustRaised == nlines' = nlines + 1 /\ line_results'.raised # ""

\* C13 amended: a ValueError or a pywikibot Error raised while a line of a
\* section is parsed is caught and logged inside parse, which goes on with
\* the remaining sections and then runs the checker; parse is left only by
\* an exception of another kind.
C13_NamedExceptionsCaught ==
    /\ [][(JustRaised /\ line_results'.raised \in {"ValueError", "Error"})
            => /\ ppc' = "sections"
               /\ logged' = Append(logged, line_results'.raised)
               /\ page_instructions' = page_instructions]_vars
    /\ [](ppc = "aborted" => line_results.raised \notin {"ValueError", "Error"})
    /\ [](ppc = "check_run" => \A k \in 1..Len(logged) :
                                  logged[k] \in {"ValueError", "Error"})

\* The first section ended in a pywikibot Error that was caught and logged,
\* the second section gave an instruction, and the checker runs.
C13_Witness ==
    /\ ppc = "check_run"
    /\ nsections = 2
    /\ logged = <<"Error">>
    /\ Len(page_instructions) = 1
    /\ line_results.raised = ""
    /\ line_results.old_cat = page_instructions[1].old_cat

\* C18 as stated: every instruction the section parser appended has its
\* old_cat outside its new_cats, whatever the line.
C18_ParsedOldCatNotInNewCats ==
    \A k \in 1..Len(page_instructions) :
        page_instructions[k].old_cat \notin Range(page_instructions[k].new_cats)

\* The categories of the category matches of a line, from the left.
RECURSIVE CatsOf(_)
CatsOf(nodes) ==
    IF nodes = <<>> THEN <<>>
    ELSE IF nodes[1].t = "cat" THEN <<nodes[1].n>> \o CatsOf(Tail(nodes))
    ELSE CatsOf(Tail(nodes))

\* C18 amended: an instruction the section parser appends has the first
\* category match of its line as old_cat and every later category match of
\* the line, in order and a repeated mention of the first category
\* included, as new_cats; so its old_cat is outside its new_cats exactly
\* when the line does not mention its first category again.
C18_ParsedCategoriesOfLine ==
    [][Len(page_instructions') > Len(page_instructions) =>
        LET instruction == page_instructions'[Len(page_instructions')]
            cats == CatsOf(line')
        IN  /\ Len(page_instructions') = Len(page_instructions) + 1
            /\ cats # <<>>
            /\ instruction.old_cat = cats[1]
            /\ instruction.new_cats = Tail(cats)
            /\ instruction.old_cat \in Range(instruction.new_cats)
                  <=> cats[1] \in Range(Tail(cats))]_vars

\* A line that names one category twice has given an instruction whose
\* old_cat is its only new_cat.
C18_Witness ==
    /\ Len(page_instructions) = 1
    /\ CatsOf(line) = <<1, 1>>
    /\ page_instructions[1].old_cat = 1
    /\ page_instructions[1].new_cats = <<1>>

\* A line of the section has just been read to its end without exception.
LineRead == nlines' = nlines + 1 /\ line_results'.raised = ""

Appended == Len(page_instructions') = Len(page_instructions) + 1

NewInstruction == page_instructions'[Len(page_instructions')]

\* The line a line has its discussion reference from: itself when it holds
\* a discussion link, else the nearest line before it in the section that
\* held one (the empty line: there is none).
RefLineOf(ln, before) ==
    IF _parse_line(ln).cfd_page # 0 THEN ln ELSE before

C21_Carried ==
    ppc = "lines" =>
        /\ cfd_page = _parse_line(ref_line).cfd_page
        /\ cfd_prefix = _parse_line(ref_line).prefix
        /\ cfd_suffix = _parse_line(ref_line).suffix

C21_Bound ==
    LineRead =>
        LET own == _parse_line(line')
            ref == _parse_line(RefLineOf(line', ref_line))
        IN  /\ Appended =>
                  /\ own.old_cat # 0
                  /\ ref.cfd_page # 0
                  /\ NewInstruction.old_cat = own.old_cat
                  /\ NewInstruction.cfd_page.page = ref.cfd_page
            /\ (own.old_cat # 0 /\ ref.cfd_page = 0) => ~Appended
            /\ ref_line' = RefLineOf(line', ref_line)

C21_Reset ==
    (nsections' = nsections + 1 /\ ppc' = "lines") =>
        /\ ref_line' = <<>>
        /\ cfd_page' = 0
        /\ cfd_prefix' = <<>>
        /\ cfd_suffix' = <<>>

\* C21: within a section the discussion reference is sticky: the reference
\* in force, with its prefix and suffix, is the one of the nearest line so
\* far in the section that held a discussion link; an instruction is bound
\* to the link of its own line or else to that reference; at the start of
\* a section there is no reference, and a line with an old_cat that has
\* neither gives no instruction.
C21_StickyReference ==
    []C21_Carried /\ [][C21_Bound /\ C21_Reset]_vars

\* In one section a line with a discussion link and a category gave an
\* instruction, a second line brought another discussion link, and the
\* category of the third line is bound to the second link.
C21_Witness ==
    /\ ppc = "lines"
    /\ nlines = 3
    /\ origin = <<1, 1>>
    /\ line = <<CatNode(2)>>
    /\ ref_line = <<CfdLink(2)>>
    /\ page_instructions[1].cfd_page.page = 1
    /\ page_instructions[2].cfd_page.page = 2
    /\ page_instructions[2].old_cat = 2

\* The prefix of the line together with the prefix of the line the
\* reference of the section comes from.
PrefixesOf(ln, before) ==
    _parse_line(ln).prefix \o _parse_line(RefLineOf(ln, before)).prefix

\* C22: a line whose own prefix, together with the prefix of the line that
\* supplied the reference in force, contains "NO BOT" gives no instruction;
\* so after a reference line with "NO BOT" no category line without a link
\* of its own gives one, and a line with a reference and an old_cat gives
\* one again once the two prefixes are free of "NO BOT".
C22_NoBotDisables ==
    [][LineRead =>
        LET own == _parse_line(line')
            ref == _parse_line(RefLineOf(line', ref_line))
        IN  /\ HasNoBot(PrefixesOf(line', ref_line)) => ~Appended
            /\ (own.cfd_page = 0 /\ HasNoBot(_parse_line(ref_line).prefix))
                  => ~Appended
            /\ (/\ own.old_cat # 0
                /\ ref.cfd_page # 0
                /\ ~HasNoBot(PrefixesOf(line', ref_line))) => Appended]_vars

\* After a discussion link with "NO BOT" in front, a line with a category
\* and no link of its own was read and gave no instruction.
C22_Witness ==
    /\ ppc = "lines"
    /\ nlines = 2
    /\ ref_line = <<TextNode(<<"NO", "BOT">>), CfdLink(1)>>
    /\ line = <<CatNode(1)>>
    /\ line_results.raised = ""
    /\ page_instructions = <<>>

\* C23: when a section is left by a caught exception, no instruction that
\* came from it, from a line before the failing one included, is in the
\* list the checker receives.
C23_FailedSectionLeavesNothing ==
    \A k \in 1..Len(page_instructions) : origin[k] \notin failed

\* ------------------------------------- a retain entry, parsed and validated
MaxEntrySuffixLen == 3

EntrySuffixes == UNION {[1..n -> SuffixWords] : n \in 0..MaxEntrySuffixLen}

\* What the subsection of the discussion may record for the category: a
\* result, a proposed action, both or neither.
Records ==
    Answers \cup {<< <<"delete">>, <<>> >>, << <<>>, <<"deleting">> >>}

\* A line of a retain section with its own discussion link, one old
\* category, possibly a new category and some suffix has been parsed.
InitEntry ==
    /\ mode = "retain"
    /\ page_instructions = <<>>
    /\ cfd_page = 0
    /\ cfd_prefix = <<>>
    /\ cfd_suffix = <<>>
    /\ line = <<>>
    /\ \E text \in EntrySuffixes : \E n \in {<<>>, <<2>>} :
          line_results = [NewLineResults EXCEPT !.cfd_page = 1, !.old_cat = 1,
                                                !.new_cats = n,
                                                !.suffix = text]
    /\ ppc = "entry"
    /\ nsections = 1
    /\ nlines = 1
    /\ logged = <<>>
    /\ suffix = <<>>
    /\ recorded = << <<>>, <<>> >>
    /\ derived = <<>>
    /\ parsed = <<>>
    /\ self_instructions = <<>>
    /\ instructions = <<>>
    /\ seen = {}
    /\ skip = {}
    /\ di = 1
    /\ pc = "done"
    /\ \E k \in Kinds : kind = [c \in Categories |-> IF c = 1 THEN k ELSE "plain"]
    /\ Idle
    /\ NoPage
    /\ NoMain
    /\ NoSearch
    /\ NoHistory

\* Lines 362-394: the discussion page is searched and read, and the
\* instruction of the line is appended.
AppendEntry ==
    /\ ppc = "entry"
    /\ YieldsInstruction(line_results)
    /\ \E found \in 0..1 : \E answer \in Records :
          /\ recorded' = answer
          /\ page_instructions' =
                 <<BuildInstruction(mode, line_results, found, answer)>>
    /\ ppc' = "appended"
    /\ UNCHANGED <<mode, cfd_page, cfd_prefix, cfd_suffix, line, line_results,
                   nsections, nlines, logged, suffix, derived>>
    /\ UNCHANGED <<cvars, rvars, mvars, dvars, hvars>>

\* Lines 448-460: _check_run on the one instruction of the page; it is
\* executed when no category of it is a disambiguation page and
\* check_instruction accepts it.
ValidateEntry ==
    /\ ppc = "appended"
    /\ ppc' = IF /\ ~InvolvesDisambig(page_instructions[1])
                 /\ check_instruction(page_instructions[1])
              THEN "executed" ELSE "rejected"
    /\ UNCHANGED <<mode, page_instructions, cfd_page, cfd_prefix, cfd_suffix,
                   line, line_results, nsections, nlines, logged>>
    /\ UNCHANGED <<cvars, rvars, svars, mvars, dvars, hvars>>

NextEntry ==
    \/ AppendEntry
    \/ ValidateEntry

SpecEntry == InitEntry /\ [][NextEntry]_vars

\* ------------------------------------------ claims on the retain entry
\* The suffix matches none of the three patterns.
Unmatched(text) ==
    /\ nc_matches(text) = {}
    /\ not_matches(text) = {}
    /\ ~HasKeep(text)

Entry == page_instructions[1]

\* C27: a retain instruction whose suffix matches none of the three
\* patterns, and whose discussion reference was not narrowed to a
\* subsection or whose subsection records no result or no proposed action,
\* has an empty result or an empty action and is not executed; an executed
\* retain instruction has a result, an action and an existing old_cat.
C27_EmptyRetainNeverExecuted ==
    ppc \in {"appended", "executed", "rejected"} =>
        /\ (/\ Unmatched(line_results.suffix)
            /\ \/ Entry.cfd_page.section = 0
               \/ recorded[1] = <<>>
               \/ recorded[2] = <<>>) =>
              /\ Entry.result = <<>> \/ Entry.action = <<>>
              /\ ppc # "executed"
        /\ ppc = "executed" =>
              /\ Entry.mode = "retain"
              /\ Entry.result # <<>>
              /\ Entry.action # <<>>
              /\ exists(Entry.old_cat)

\* A retain entry without a telling suffix, whose narrowed discussion
\* records a result and no proposed action, was rejected although its
\* category exists.
C27_Witness ==
    /\ ppc = "rejected"
    /\ Unmatched(line_results.suffix)
    /\ line_results.suffix # <<>>
    /\ Entry.cfd_page.section = 1
    /\ recorded = << <<"delete">>, <<>> >>
    /\ Entry.new_cats = <<>>
    /\ kind[Entry.old_cat] = "plain"

\* ------------------------------------------------------- find_discussion
MaxDiscussionSections == 2
MaxParts == 3

\* A level-4 section of a discussion page, as find_discussion reads it for
\* one category: whether every node of the heading is Text, whether the
\* stripped heading equals the title of the category, the number of parts
\* str(section).split("(UTC)") gives, and which of the parts hold a node
\* that cat_from_node resolves to the category.
DiscussionSections ==
    UNION {[heading_text : BOOLEAN,
            heading_is_title : BOOLEAN,
            nparts : {n},
            named_in : SUBSET (1..n)] : n \in 1..MaxParts}

DiscussionPages ==
    UNION {[1..n -> DiscussionSections] : n \in 0..MaxDiscussionSections}

\* A discussion that is narrowed whatever the heading is made of.
SectionDiscussionNarrowed(self, section, k) == [self EXCEPT !.section = k]

\* Lines 250-258: the reference a section stands for; the page itself when
\* the heading holds anything other than text.
SectionDiscussion(self, section, k) ==
    IF section.heading_text THEN [self EXCEPT !.section = k] ELSE self

\* Lines 257-258, 260-268: the section ends the search.
SectionReturns(section) ==
    \/ section.heading_text /\ section.heading_is_title
    \/ section.nparts >= 3 /\ 2 \in section.named_in

RECURSIVE SearchSections(_, _, _)
\* Lines 247-270: the loop over the level-4 sections, from the k-th on.
SearchSections(self, sections, k) ==
    IF k > Len(sections) THEN self
    ELSE IF SectionReturns(sections[k])
    THEN SectionDiscussion(self, sections[k], k)
    ELSE SearchSections(self, sections, k + 1)

\* Lines 243-272: find_discussion of the reference self over the sections
\* of its page.
find_discussion_in(self, sections) ==
    IF self.section # 0 THEN self ELSE SearchSections(self, sections, 1)

\* A reference, with or without a section of its own, meets some page.
InitSearch ==
    /\ cfd_sections \in DiscussionPages
    /\ \E s \in 0..1 : cfd_self = [page |-> 1, section |-> s]
    /\ discussion = [page |-> 0, section |-> 0]
    /\ fpc = "call"
    /\ parsed = <<>>
    /\ self_instructions = <<>>
    /\ instructions = <<>>
    /\ seen = {}
    /\ skip = {}
    /\ di = 1
    /\ pc = "done"
    /\ kind = [c \in Categories |-> "plain"]
    /\ Idle
    /\ NoPage
    /\ NoParse
    /\ NoRetain
    /\ NoMain
    /\ NoHistory

\* find_discussion returns.
FindDiscussion ==
    /\ fpc = "call"
    /\ discussion' = find_discussion_in(cfd_self, cfd_sections)
    /\ fpc' = "returned"
    /\ UNCHANGED <<cfd_self, cfd_sections>>
    /\ UNCHANGED <<cvars, rvars, pvars, svars, mvars, hvars>>

NextSearch == FindDiscussion

SpecSearch == InitSearch /\ [][NextSearch]_vars

\* ------------------------------------------- claims on find_discussion
\* The section matches: its heading is pure text and equals the title of
\* the category, or its nomination part, the second of at least three
\* parts, names the category.
Matches(section) ==
    \/ section.heading_text /\ section.heading_is_title
    \/ section.nparts >= 3 /\ 2 \in section.named_in

Matching == {k \in 1..Len(cfd_sections) : Matches(cfd_sections[k])}

\* C28 as stated: a reference that names a subsection is returned
\* unchanged; otherwise the reference narrowed to the first matching
\* section in page order is returned, and the un-narrowed page only when no
\* section matches.
C28_NarrowedToFirstMatch ==
    fpc = "returned" =>
        discussion =
            IF cfd_self.section # 0 THEN cfd_self
            ELSE IF Matching # {}
            THEN [cfd_self EXCEPT !.section = Min(Matching)]
            ELSE cfd_self

\* C28 amended: a reference that names a subsection is returned unchanged;
\* otherwise the search stops at the first matching section in page order
\* and returns the reference narrowed to it when its heading is pure text
\* and the un-narrowed page when it is not; the un-narrowed page is
\* returned too when no section matches.
C28_NarrowedToFirstMatchWithTextHeading ==
    fpc = "returned" =>
        discussion =
            IF cfd_self.section # 0 THEN cfd_self
            ELSE IF Matching # {}
            THEN IF cfd_sections[Min(Matching)].heading_text
                 THEN [cfd_self EXCEPT !.section = Min(Matching)]
                 ELSE cfd_self
            ELSE cfd_self

\* The first section names the category in its nomination under a heading
\* that is not pure text, the second has the title of the category as its
\* heading: the page is returned un-narrowed.
C28_Witness ==
    /\ fpc = "returned"
    /\ cfd_self.section = 0
    /\ Len(cfd_sections) = 2
    /\ ~cfd_sections[1].heading_text
    /\ cfd_sections[1].nparts = 3
    /\ cfd_sections[1].named_in = {2}
    /\ cfd_sections[2].heading_text
    /\ cfd_sections[2].heading_is_title
    /\ discussion = cfd_self

====
